---- MODULE Spec2Model ----
(***************************************************************************)
(* Model of ocrmypdf/hocrtransform/_canvas.py: the content stream builder, *)
(* the drawing facade (PikepdfCanvasAccessor), the page assembler          *)
(* (PikepdfCanvas), the text run builder (PikepdfText) and the glyphless   *)
(* font registrar (register_glyphlessfont).                                *)
(***************************************************************************)
EXTENDS Integers, Sequences, FiniteSets, TLC

VARIABLES
    cs,             \* PikepdfCanvas._cs._instructions, the page's instruction stream
    images,         \* PikepdfCanvas._images, shared with the accessor
    stack_depth,    \* PikepdfCanvasAccessor._stack_depth
    canvas_depth,   \* PikepdfCanvas._stack_depth
    page_size,      \* PikepdfCanvas.page_size
    page,           \* PikepdfCanvas._page: Contents, MediaBox, Resources
    pdf,            \* PikepdfCanvas._pdf: indirect objects and registered fonts
    output,         \* what Pdf.save has written to the output target
    warnings,       \* number of log.warning records emitted
    text,           \* the PikepdfText under construction (or NoText)
    scopes,         \* the caller's open enter_context scopes (entry depths)
    issued,         \* tokens Name.random has handed out
    probe,          \* a reader's lookup in the CIDToGIDMap stream
    caller,         \* history: the caller's unmatched pushes, and whether
                    \* every call so far was balanced
    last,           \* the call that produced this state, with its arguments
    calls           \* number of calls made on the canvas and its text run

vars == <<cs, images, stack_depth, canvas_depth, page_size, page, pdf, output,
          warnings, text, scopes, issued, probe, caller, last, calls>>

accVars == <<cs, images, stack_depth>>
docVars == <<canvas_depth, page_size, page, pdf, output, warnings>>

----------------------------------------------------------------------------
(* Bounds *)

MaxCalls == 4
MaxSaves == 2
MaxTokens == 2
MaxScopes == 2
MaxTextLen == 2
MaxTextCalls == 3
MaxOpCalls == 2

----------------------------------------------------------------------------
(* Program constants *)

CHAR_ASPECT == 2
FONT_NAME == "/f-0-0"
CIDCount == 65536

----------------------------------------------------------------------------
(* Instructions: ContentStreamInstruction(operands, Operator(op)).  The     *)
(* operands are kept in three typed slots: a name, numbers, a byte string. *)

Inst(op, name, nums, bytes) ==
    [op |-> op, name |-> name, nums |-> nums, bytes |-> bytes]

Op(op) == Inst(op, "", <<>>, <<>>)


----------------------------------------------------------------------------
(* ContentStreamBuilder: every method appends to _instructions.            *)

\* Matrix(a, b, c, d, e, f).shorthand
Shorthand(a, b, c, d, e, f) == <<a, b, c, d, e, f>>

CsPush(s) == Append(s, Op("q"))

CsPop(s) == Append(s, Op("Q"))

CsCm(s, m) == Append(s, Inst("cm", "", m, <<>>))

CsBeginText(s) == Append(s, Op("BT"))

CsEndText(s) == Append(s, Op("ET"))

\* operands [mctype, Dictionary(MCID=mcid)]
CsBeginMarkedContentProplist(s, mctype, mcid) ==
    Append(s, Inst("BDC", mctype, <<mcid>>, <<>>))

CsBeginMarkedContent(s, mctype) == Append(s, Inst("BMC", mctype, <<>>, <<>>))

CsEndMarkedContent(s) == Append(s, Op("EMC"))

CsSetTextFont(s, font, size) == Append(s, Inst("Tf", font, <<size>>, <<>>))

CsSetTextMatrix(s, m) == Append(s, Inst("Tm", "", m, <<>>))

CsSetTextRendering(s, mode) == Append(s, Inst("Tr", "", <<mode>>, <<>>))

CsSetTextHorizontalScaling(s, scale) == Append(s, Inst("Tz", "", <<scale>>, <<>>))

\* str.encode("utf-16be"): each code point below 2^16 is one 16-bit unit, the
\* others a surrogate pair; each unit is written high byte first.
Utf16Units(cp) ==
    IF cp < 65536
    THEN <<cp>>
    ELSE <<55296 + ((cp - 65536) \div 1024), 56320 + ((cp - 65536) % 1024)>>

\* a little-endian slip
UnitBytesLE(u) == <<u % 256, u \div 256>>

UnitBytesBE(u) == <<u \div 256, u % 256>>

RECURSIVE EncodeUtf16BE(_)
EncodeUtf16BE(t) ==
    IF t = <<>>
    THEN <<>>
    ELSE LET us == Utf16Units(Head(t))
         IN (IF Len(us) = 1
             THEN UnitBytesBE(us[1])
             ELSE UnitBytesBE(us[1]) \o UnitBytesBE(us[2]))
            \o EncodeUtf16BE(Tail(t))

CsShowText(s, t) == Append(s, Inst("TJ", "", <<>>, EncodeUtf16BE(t)))

CsMoveCursor(s, dx, dy) == Append(s, Inst("Td", "", <<dx, dy>>, <<>>))

CsStrokeAndClose(s) == Append(s, Op("s"))

CsFill(s) == Append(s, Op("f"))

CsAppendRectangle(s, x, y, w, h) == Append(s, Inst("re", "", <<x, y, w, h>>, <<>>))

CsSetStrokeColor(s, r, g, b) == Append(s, Inst("RG", "", <<r, g, b>>, <<>>))

CsSetFillColor(s, r, g, b) == Append(s, Inst("rg", "", <<r, g, b>>, <<>>))

CsSetLineWidth(s, width) == Append(s, Inst("w", "", <<width>>, <<>>))

\* set_dashes(array, phase): array is None (kind "none"), a number (kind
\* "num", the number being array[1]) or a list (kind "list").  The operands
\* [array, phase] are kept as the array's elements followed by the phase.
CsSetDashes(s, kind, array, phase) ==
    LET arr == IF kind = "none" THEN <<>>
               ELSE IF kind = "num" THEN <<array[1], phase>>
               ELSE array
        ph == IF kind = "num" THEN 0 ELSE phase
    IN Append(s, Inst("d", "", arr \o <<ph>>, <<>>))

CsLine(s, x1, y1, x2, y2) ==
    s \o <<Inst("m", "", <<x1, y1>>, <<>>), Inst("l", "", <<x2, y2>>, <<>>)>>

\* the operand is forgotten
CsDrawFormXObject_NoName(s, name) == Append(s, Op("Do"))

CsDrawFormXObject(s, name) == Append(s, Inst("Do", name, <<>>, <<>>))

CsBuild(s) == s

----------------------------------------------------------------------------
(* unparse_content_stream: one line per instruction, the operands followed *)
(* by the operator; a byte string is written in hexadecimal.               *)

HexDigit == <<"0", "1", "2", "3", "4", "5", "6", "7",
              "8", "9", "a", "b", "c", "d", "e", "f">>

RECURSIVE HexString(_)
HexString(bytes) ==
    IF bytes = <<>>
    THEN ""
    ELSE HexDigit[(Head(bytes) \div 16) + 1] \o HexDigit[(Head(bytes) % 16) + 1]
         \o HexString(Tail(bytes))

UnparseNums(nums) == [k \in 1..Len(nums) |-> ToString(nums[k])]

UnparseInst(i) ==
    (IF i.name # "" THEN <<i.name>> ELSE <<>>)
    \o (IF i.op = "d"
        THEN <<"[">> \o UnparseNums(SubSeq(i.nums, 1, Len(i.nums) - 1))
             \o <<"]", ToString(i.nums[Len(i.nums)])>>
        ELSE IF i.op = "BDC"
        THEN <<"<<", "/MCID">> \o UnparseNums(i.nums) \o <<">>">>
        ELSE UnparseNums(i.nums))
    \o (IF i.op = "TJ" THEN <<"[", "<" \o HexString(i.bytes) \o ">", "]">> ELSE <<>>)
    \o <<i.op>>

Unparse(insts) == [k \in 1..Len(insts) |-> UnparseInst(insts[k])]

\* The operators of a serialized stream, in order.
Operators(contents) == [k \in 1..Len(contents) |-> contents[k][Len(contents[k])]]

----------------------------------------------------------------------------
(* register_glyphlessfont(pdf): six indirect objects, the Type0 font first *)

\* the two bytes of the unit swapped
CIDToGIDMapData_Swapped == [unit |-> <<1, 0>>, count |-> CIDCount]

\* b"\x00\x01" * 65536
CIDToGIDMapData == [unit |-> <<0, 1>>, count |-> CIDCount]

RegisterGlyphlessFont(p) ==
    LET basefont == p.objects + 1
        graph == [basefont |-> basefont,
                  DW |-> 1000 \div CHAR_ASPECT,
                  CIDToGIDMap |-> CIDToGIDMapData]
    IN [pdf |-> [objects |-> p.objects + 6, fonts |-> Append(p.fonts, graph)],
        basefont |-> basefont]

\* The bytes of a stream made by repeating a unit.
StreamLen(d) == Len(d.unit) * d.count

ByteAt(d, k) == d.unit[(k % Len(d.unit)) + 1]

\* The 16-bit big-endian value at index c of a stream.
ValueAt(d, c) == ByteAt(d, 2 * c) * 256 + ByteAt(d, 2 * c + 1)

----------------------------------------------------------------------------
(* PikepdfCanvasAccessor, as a function of its fields                      *)
(*   a = [cs, images, depth]                                               *)

Acc == [cs |-> cs, images |-> images, depth |-> stack_depth]

AccStrokeColor(a, color) ==
    [a EXCEPT !.cs = CsSetStrokeColor(@, color.red, color.green, color.blue)]

AccFillColor(a, color) ==
    [a EXCEPT !.cs = CsSetFillColor(@, color.red, color.green, color.blue)]

AccLineWidth(a, width) == [a EXCEPT !.cs = CsSetLineWidth(@, width)]

AccDashes(a, kind, array, phase) == [a EXCEPT !.cs = CsSetDashes(@, kind, array, phase)]

\* the path is built but never stroked
AccLine_NoStroke(a, x1, y1, x2, y2) == [a EXCEPT !.cs = CsLine(@, x1, y1, x2, y2)]

AccLine(a, x1, y1, x2, y2) ==
    [a EXCEPT !.cs = CsStrokeAndClose(CsLine(@, x1, y1, x2, y2))]

AccRect(a, x, y, w, h, fill) ==
    [a EXCEPT !.cs = IF fill
                     THEN CsFill(CsAppendRectangle(@, x, y, w, h))
                     ELSE CsStrokeAndClose(CsAppendRectangle(@, x, y, w, h))]

AccPush(a) == [a EXCEPT !.cs = CsPush(@), !.depth = @ + 1]

\* the pop forgets the counter
AccPop_NoDecrement(a) == [a EXCEPT !.cs = CsPop(@)]

AccPop(a) == [a EXCEPT !.cs = CsPop(@), !.depth = @ - 1]

AccCm(a, m) == [a EXCEPT !.cs = CsCm(@, m)]

\* enter_context: push, run the body at the yield, pop.  An error raised by
\* the body leaves the generator at the yield: the pop does not run.
CtxEnter(a) == AccPush(a)

CtxExit(a, raised) == IF raised THEN a ELSE AccPop(a)

\* a four-channel mode is let through
SupportedModes_AllowsCMYK == {"1", "L", "RGB", "CMYK"}

\* Image.convert("RGB") of a palette image
ConvertRGB(img) == [img EXCEPT !.mode = "RGB"]

SupportedModes == {"1", "L", "RGB"}

\* every image gets the same name
ImName_Fixed(tok) == "/Im"

\* Name.random(prefix="Im") with the random token tok
ImName(tok) == "/Im" \o ToString(tok)

\* draw_image: [acc, ok], the accessor after the call and whether it returned
AccDrawImage(a, image, x, y, width, height, tok) ==
    LET a1 == CtxEnter(a)
        a2 == AccCm(a1, Shorthand(width, 0, 0, height, x, y))
        img == IF image.mode = "P" THEN ConvertRGB(image) ELSE image
    IN IF img.mode \notin SupportedModes
       THEN [acc |-> CtxExit(a2, TRUE), ok |-> FALSE]
       ELSE LET name == ImName(tok)
                li == [name |-> name, image |-> img]
                a3 == [a2 EXCEPT !.images = Append(@, li)]
                a4 == [a3 EXCEPT !.cs = CsDrawFormXObject(@, name)]
            IN [acc |-> CtxExit(a4, FALSE), ok |-> TRUE]

\* the text object is never closed
AccDrawText_NoEndText(a, run) == [a EXCEPT !.cs = @ \o CsBuild(run.cs)]

\* draw_text(text): the run's instructions, then _end_text
AccDrawText(a, run) == [a EXCEPT !.cs = CsEndText(@ \o CsBuild(run.cs))]

----------------------------------------------------------------------------
(* PikepdfText, as a function of its fields  run = [cs, p0, direction]     *)

TextInit(x, y, direction) ==
    [cs |-> CsBeginText(<<>>), p0 |-> <<x, y>>, direction |-> direction]

\* the font the caller names is selected
TextSetFont_UsesArgument(run, font, size) ==
    [run EXCEPT !.cs = CsSetTextFont(@, font, size)]

TextSetFont(run, font, size) ==
    [run EXCEPT !.cs = CsSetTextFont(@, "/f-0-0", size)]

TextSetRenderMode(run, mode) == [run EXCEPT !.cs = CsSetTextRendering(@, mode)]

\* the anchor is left where it was
TextSetTextTransform_KeepsAnchor(run, m) == [run EXCEPT !.cs = CsSetTextMatrix(@, m)]

TextSetTextTransform(run, m) ==
    [run EXCEPT !.cs = CsSetTextMatrix(@, m), !.p0 = <<m[5], m[6]>>]

TextShow(run, t) ==
    IF run.direction = "LTR"
    THEN [run EXCEPT !.cs = CsShowText(@, t)]
    ELSE [run EXCEPT !.cs = CsEndMarkedContent(
                                CsShowText(
                                    CsBeginMarkedContent(@, "/ReversedChars"), t))]

TextSetHorizScale(run, scale) ==
    [run EXCEPT !.cs = CsSetTextHorizontalScaling(@, scale)]

TextGetStartOfLine(run) == run.p0

TextMoveCursor(run, x, y) == [run EXCEPT !.cs = CsMoveCursor(@, x, y)]

----------------------------------------------------------------------------
(* PikepdfCanvas                                                           *)

\* bilevel images are written with eight bits per component
SaveImage_AlwaysEightBits(li) ==
    [Width |-> li.image.width,
     Height |-> li.image.height,
     ColorSpace |-> IF li.image.mode \in {"1", "L"} THEN "/DeviceGray" ELSE "/DeviceRGB",
     Type |-> "/XObject",
     Subtype |-> "/Image",
     BitsPerComponent |-> 8]

\* _save_image: the dictionary of the image stream
SaveImage(li) ==
    [Width |-> li.image.width,
     Height |-> li.image.height,
     ColorSpace |-> IF li.image.mode \in {"1", "L"} THEN "/DeviceGray" ELSE "/DeviceRGB",
     Type |-> "/XObject",
     Subtype |-> "/Image",
     BitsPerComponent |-> IF li.image.mode = "1" THEN 1 ELSE 8]

\* the loop skips the first pending image
SaveXObjects_SkipsFirst(imgs) ==
    [n \in {imgs[k].name : k \in 2..Len(imgs)} |->
        SaveImage(imgs[CHOOSE k \in 2..Len(imgs) : imgs[k].name = n])]

\* for li in self._images: Resources.XObject[li.name] = self._save_image(li)
\* (a later image of the same name replaces an earlier one)
SaveXObjects(imgs) ==
    [n \in {imgs[k].name : k \in 1..Len(imgs)} |->
        LET k == CHOOSE k \in 1..Len(imgs) :
                    /\ imgs[k].name = n
                    /\ \A j \in 1..Len(imgs) : imgs[j].name = n => j <= k
        IN SaveImage(imgs[k])]

\* Resources.Font[self._font_name] = register_glyphlessfont(self._pdf)
SaveFonts(basefont) == [n \in {FONT_NAME} |-> basefont]

\* log.warning(...) when the stack depth tested by save is not zero
SaveWarns(a) == canvas_depth # 0

EmptyPage(size) ==
    [Contents |-> <<>>,
     MediaBox |-> <<0, 0, size[1], size[2]>>,
     Resources |-> [Font |-> <<>>, XObject |-> <<>>]]

----------------------------------------------------------------------------
(* Inputs                                                                  *)

PageSizes == {<<200, 100>>}
Modes == {"1", "L", "RGB", "P", "CMYK"}
\* one decoded image of each mode, each of its own size
ImageSize(mode) ==
    CASE mode = "1" -> <<8, 2>>
      [] mode = "L" -> <<4, 3>>
      [] mode = "RGB" -> <<2, 5>>
      [] mode = "P" -> <<3, 1>>
      [] OTHER -> <<1, 4>>
Images == {[mode |-> m, width |-> ImageSize(m)[1], height |-> ImageSize(m)[2]] : m \in Modes}
Placements == {<<10, 20, 50, 30>>}      \* x, y, width, height
Tokens == 1..MaxTokens
Directions == {"LTR", "RTL"}
\* code points of well-formed text: one of the BMP, one of a supplementary plane
CodePoints == {1488, 128512}
Texts == UNION {[1..n -> CodePoints] : n \in 0..MaxTextLen}
SampleRuns ==
    {TextShow(TextSetFont(TextInit(5, 5, "LTR"), "Helvetica", 12), <<72, 105>>),
     TextShow(TextInit(0, 0, "RTL"), <<1488, 1489>>)}

NoText == [cs |-> <<>>, p0 |-> <<0, 0>>, direction |-> "LTR"]
NoProbe == [valid |-> FALSE, code |-> 0, gid |-> 0]

----------------------------------------------------------------------------
(* PikepdfCanvas.__init__: a new document with a blank page, an empty      *)
(* stream and image list, and the implicit self.do.push()                  *)

Init ==
    /\ page_size \in PageSizes
    /\ pdf = [objects |-> 0, fonts |-> <<>>]
    /\ page = EmptyPage(page_size)
    /\ LET a == AccPush([cs |-> <<>>, images |-> <<>>, depth |-> 0])
       IN /\ cs = a.cs
          /\ images = a.images
          /\ stack_depth = a.depth
    /\ canvas_depth = 0
    /\ output = <<>>
    /\ warnings = 0
    /\ text = NoText
    /\ scopes = <<>>
    /\ issued = {}
    /\ probe = NoProbe
    /\ caller = [open |-> 0, balanced |-> TRUE]
    /\ last = [op |-> "init", ok |-> TRUE, args |-> <<>>, name |-> ""]
    /\ calls = 0

SetAcc(a) ==
    /\ cs' = a.cs
    /\ images' = a.images
    /\ stack_depth' = a.depth

\* a call with its numeric arguments and its name-like argument (the mode of
\* the image given to draw_image, the font given to set_font)
CalledWith(op, ok, args, name) ==
    /\ calls < MaxCalls
    /\ calls' = calls + 1
    /\ last' = [op |-> op, ok |-> ok, args |-> args, name |-> name]

Called(op, ok, args) == CalledWith(op, ok, args, "")

\* history of the caller's own pushes and pops
Opened == caller' = [caller EXCEPT !.open = @ + 1]

Closed ==
    caller' = IF caller.open > 0
              THEN [caller EXCEPT !.open = @ - 1]
              ELSE [caller EXCEPT !.balanced = FALSE]

Unbalanced == caller' = [caller EXCEPT !.balanced = FALSE]

Push ==
    /\ Called("push", TRUE, <<>>)
    /\ SetAcc(AccPush(Acc))
    /\ Opened
    /\ UNCHANGED <<docVars, text, scopes, issued, probe>>

Pop ==
    /\ Called("pop", TRUE, <<>>)
    /\ SetAcc(AccPop(Acc))
    /\ Closed
    /\ UNCHANGED <<docVars, text, scopes, issued, probe>>

\* with canvas.do.enter_context(): the caller's scope is entered
EnterContext ==
    /\ Len(scopes) < MaxScopes
    /\ Called("enter_context", TRUE, <<>>)
    /\ SetAcc(CtxEnter(Acc))
    /\ scopes' = Append(scopes, stack_depth)
    /\ Opened
    /\ UNCHANGED <<docVars, text, issued, probe>>

\* the caller's innermost scope is left, by the end of its body or by an
\* error raised in it
ExitContext(raised) ==
    /\ scopes # <<>>
    /\ Called("exit_context", ~raised, <<>>)
    /\ SetAcc(CtxExit(Acc, raised))
    /\ scopes' = SubSeq(scopes, 1, Len(scopes) - 1)
    /\ IF raised THEN Unbalanced ELSE Closed
    /\ UNCHANGED <<docVars, text, issued, probe>>

Line ==
    /\ Called("line", TRUE, <<0, 0, 5, 5>>)
    /\ SetAcc(AccLine(Acc, 0, 0, 5, 5))
    /\ UNCHANGED <<docVars, text, scopes, issued, probe, caller>>

Rect(fill) ==
    /\ Called("rect", TRUE, <<10, 10, 50, 20>>)
    /\ SetAcc(AccRect(Acc, 10, 10, 50, 20, fill))
    /\ UNCHANGED <<docVars, text, scopes, issued, probe, caller>>

\* Name.random draws a token that, by its contract, no earlier call returned
\* (a call that fails makes no Name.random call: tok is then not used)
DrawImage(image, pl, tok) ==
    /\ LET r == AccDrawImage(Acc, image, pl[1], pl[2], pl[3], pl[4], tok)
       IN /\ CalledWith("draw_image", r.ok, pl, image.mode)
          /\ SetAcc(r.acc)
          /\ IF r.ok
             THEN tok \notin issued /\ issued' = issued \cup {tok} /\ UNCHANGED caller
             ELSE tok = 1 /\ issued' = issued /\ Unbalanced
    /\ UNCHANGED <<docVars, text, scopes, probe>>

DrawText(run) ==
    /\ Called("draw_text", TRUE, <<>>)
    /\ SetAcc(AccDrawText(Acc, run))
    /\ UNCHANGED <<docVars, text, scopes, issued, probe, caller>>

\* the document is written before the page's resources are set
SaveCommit_BeforeResources(out, pg) ==
    Append(out, [pg EXCEPT !.Resources = [Font |-> <<>>, XObject |-> <<>>]])

\* self._pdf.save(output_file), the last statement of save: the document,
\* with the page as assembled, goes to the output target
SaveCommit(out, pg) == Append(out, pg)

\* save without the implicit pop
SaveAcc_NoPop == Acc

\* self.do.pop(), the first statement of save
SaveAcc == AccPop(Acc)

Save ==
    /\ Len(output) < MaxSaves
    /\ Called("save", TRUE, <<>>)
    /\ LET a == SaveAcc
           p1 == [pdf EXCEPT !.objects = @ + 1]
           reg == RegisterGlyphlessFont(p1)
           pg == [Contents |-> Unparse(CsBuild(a.cs)),
                  MediaBox |-> <<0, 0, page_size[1], page_size[2]>>,
                  Resources |-> [Font |-> SaveFonts(reg.basefont),
                                 XObject |-> SaveXObjects(a.images)]]
       IN /\ SetAcc(a)
          /\ warnings' = IF SaveWarns(a) THEN warnings + 1 ELSE warnings
          /\ pdf' = [reg.pdf EXCEPT !.objects = @ + Len(a.images)]
          /\ page' = pg
          /\ output' = SaveCommit(output, pg)
    /\ UNCHANGED <<canvas_depth, page_size, text, scopes, issued, probe, caller>>

Next ==
    \/ Push
    \/ Pop
    \/ EnterContext
    \/ \E raised \in BOOLEAN : ExitContext(raised)
    \/ Line
    \/ \E fill \in BOOLEAN : Rect(fill)
    \/ \E image \in Images, pl \in Placements, tok \in Tokens : DrawImage(image, pl, tok)
    \/ \E run \in SampleRuns : DrawText(run)
    \/ Save

Spec == Init /\ [][Next]_vars

----------------------------------------------------------------------------
(* The text run builder on its own: one PikepdfText and the calls on it    *)

TextCalledWith(op, args, name) ==
    /\ calls < MaxTextCalls
    /\ calls' = calls + 1
    /\ last' = [op |-> op, ok |-> TRUE, args |-> args, name |-> name]
    /\ UNCHANGED <<accVars, docVars, scopes, issued, probe, caller>>

TextCalled(op, args) == TextCalledWith(op, args, "")

NewText(x, y, direction) ==
    /\ TextCalled("text", <<x, y>>)
    /\ text' = TextInit(x, y, direction)

SetFont(font, size) ==
    /\ text.cs # <<>>
    /\ TextCalledWith("set_font", <<size>>, font)
    /\ text' = TextSetFont(text, font, size)

SetRenderMode(mode) ==
    /\ text.cs # <<>>
    /\ TextCalled("set_render_mode", <<mode>>)
    /\ text' = TextSetRenderMode(text, mode)

SetTextTransform(m) ==
    /\ text.cs # <<>>
    /\ TextCalled("set_text_transform", m)
    /\ text' = TextSetTextTransform(text, m)

Show(t) ==
    /\ text.cs # <<>>
    /\ TextCalled("show", t)
    /\ text' = TextShow(text, t)

SetHorizScale(scale) ==
    /\ text.cs # <<>>
    /\ TextCalled("set_horiz_scale", <<scale>>)
    /\ text' = TextSetHorizScale(text, scale)

MoveCursor(x, y) ==
    /\ text.cs # <<>>
    /\ TextCalled("move_cursor", <<x, y>>)
    /\ text' = TextMoveCursor(text, x, y)

Anchors == {<<0, 0>>, <<5, 7>>}
Fonts == {"Helvetica", "/f-0-0"}
Transforms == {Shorthand(1, 0, 0, 1, 30, 40), Shorthand(2, 0, 0, 2, 0, 9)}

NextText ==
    \/ \E p \in Anchors, d \in Directions : NewText(p[1], p[2], d)
    \/ \E f \in Fonts : SetFont(f, 12)
    \/ SetRenderMode(3)
    \/ \E m \in Transforms : SetTextTransform(m)
    \/ \E t \in Texts : Show(t)
    \/ SetHorizScale(80)
    \/ MoveCursor(3, -4)

SpecText == Init /\ [][NextText]_vars

----------------------------------------------------------------------------
(* The glyphless font of a saved document, read by a consumer that walks   *)
(* the CIDToGIDMap stream of the most recently registered font             *)

CIDStrides == {1, 256}

ScanCID(stride) ==
    /\ pdf.fonts # <<>>
    /\ LET map == pdf.fonts[Len(pdf.fonts)].CIDToGIDMap
           c == IF probe.valid THEN probe.code + stride ELSE 0
       IN /\ 2 * c + 1 < StreamLen(map)
          /\ probe' = [valid |-> TRUE, code |-> c, gid |-> ValueAt(map, c)]
    /\ UNCHANGED <<accVars, docVars, text, scopes, issued, caller, last, calls>>

NextFont ==
    \/ Save
    \/ \E stride \in CIDStrides : ScanCID(stride)

SpecFont == Init /\ [][NextFont]_vars

----------------------------------------------------------------------------
(* The stream-building methods one by one: every method of the canvas's    *)
(* ContentStreamBuilder, and the facade methods that only write operators  *)

BuilderMethods ==
    {"push", "pop", "cm", "begin_text", "end_text", "begin_marked_content_proplist",
     "begin_marked_content", "end_marked_content", "set_text_font", "set_text_matrix",
     "set_text_rendering", "set_text_horizontal_scaling", "show_text", "move_cursor",
     "stroke_and_close", "fill", "append_rectangle", "set_stroke_color",
     "set_fill_color", "set_line_width", "line", "set_dashes", "draw_form_xobject"}

FacadeMethods ==
    {"stroke_color", "fill_color", "line_width", "line", "rect", "dashes",
     "push", "pop", "cm"}

Variants == 0..2
SampleColor == [red |-> 1, green |-> 0, blue |-> 0]
SampleMatrix == Shorthand(1, 0, 0, 1, 7, 9)
DashKind(v) == IF v = 0 THEN "none" ELSE IF v = 1 THEN "num" ELSE "list"

\* canvas._cs.<m>(...), with sample arguments
BuilderApply(m, v, s) ==
    CASE m = "push" -> CsPush(s)
      [] m = "pop" -> CsPop(s)
      [] m = "cm" -> CsCm(s, SampleMatrix)
      [] m = "begin_text" -> CsBeginText(s)
      [] m = "end_text" -> CsEndText(s)
      [] m = "begin_marked_content_proplist" -> CsBeginMarkedContentProplist(s, "/Span", v)
      [] m = "begin_marked_content" -> CsBeginMarkedContent(s, "/ReversedChars")
      [] m = "end_marked_content" -> CsEndMarkedContent(s)
      [] m = "set_text_font" -> CsSetTextFont(s, FONT_NAME, 12)
      [] m = "set_text_matrix" -> CsSetTextMatrix(s, SampleMatrix)
      [] m = "set_text_rendering" -> CsSetTextRendering(s, 3)
      [] m = "set_text_horizontal_scaling" -> CsSetTextHorizontalScaling(s, 80)
      [] m = "show_text" -> CsShowText(s, <<72, 105>>)
      [] m = "move_cursor" -> CsMoveCursor(s, 3, -4)
      [] m = "stroke_and_close" -> CsStrokeAndClose(s)
      [] m = "fill" -> CsFill(s)
      [] m = "append_rectangle" -> CsAppendRectangle(s, 10, 10, 50, 20)
      [] m = "set_stroke_color" -> CsSetStrokeColor(s, 1, 0, 0)
      [] m = "set_fill_color" -> CsSetFillColor(s, 0, 1, 0)
      [] m = "set_line_width" -> CsSetLineWidth(s, 2)
      [] m = "line" -> CsLine(s, 0, 0, 5, 5)
      [] m = "set_dashes" -> CsSetDashes(s, DashKind(v), <<3, 1>>, 2)
      [] m = "draw_form_xobject" -> CsDrawFormXObject(s, "/Im0")

\* canvas.do.<m>(...), with sample arguments
FacadeApply(m, v, a) ==
    CASE m = "stroke_color" -> AccStrokeColor(a, SampleColor)
      [] m = "fill_color" -> AccFillColor(a, SampleColor)
      [] m = "line_width" -> AccLineWidth(a, 2)
      [] m = "line" -> AccLine(a, 0, 0, 5, 5)
      [] m = "rect" -> AccRect(a, 10, 10, 50, 20, v = 1)
      [] m = "dashes" -> AccDashes(a, DashKind(v), <<3, 1>>, 2)
      [] m = "push" -> AccPush(a)
      [] m = "pop" -> AccPop(a)
      [] m = "cm" -> AccCm(a, SampleMatrix)

OpCalled(op, v) ==
    /\ calls < MaxOpCalls
    /\ calls' = calls + 1
    /\ last' = [op |-> op, ok |-> TRUE, args |-> <<v>>, name |-> ""]

BuilderCall(m, v) ==
    /\ OpCalled("cs." \o m, v)
    /\ cs' = BuilderApply(m, v, cs)
    /\ UNCHANGED <<images, stack_depth, docVars, text, scopes, issued, probe, caller>>

FacadeCall(m, v) ==
    /\ OpCalled(m, v)
    /\ SetAcc(FacadeApply(m, v, Acc))
    /\ IF m = "push" THEN Opened ELSE IF m = "pop" THEN Closed ELSE UNCHANGED caller
    /\ UNCHANGED <<docVars, text, scopes, issued, probe>>

NextOps ==
    \/ \E m \in BuilderMethods, v \in Variants : BuilderCall(m, v)
    \/ \E m \in FacadeMethods, v \in Variants : FacadeCall(m, v)

SpecOps == Init /\ [][NextOps]_vars

----------------------------------------------------------------------------
(* Text runs drawn on the page: the calls on a PikepdfText, draw_text of    *)
(* the run built so far, and the operator-writing facade methods between   *)

DrawTextRun ==
    /\ text.cs # <<>>
    /\ calls < MaxTextCalls
    /\ calls' = calls + 1
    /\ last' = [op |-> "draw_text", ok |-> TRUE, args |-> <<>>, name |-> ""]
    /\ SetAcc(AccDrawText(Acc, text))
    /\ UNCHANGED <<docVars, text, scopes, issued, probe, caller>>

NextTextDraw ==
    \/ NextText
    \/ DrawTextRun
    \/ \E m \in FacadeMethods, v \in Variants : FacadeCall(m, v)

SpecTextDraw == Init /\ [][NextTextDraw]_vars

----------------------------------------------------------------------------
(* Properties                                                              *)

CountOp(s, op) == Cardinality({k \in 1..Len(s) : s[k].op = op})

\* the instructions a step appended to a stream
Added(old, new) == SubSeq(new, Len(old) + 1, Len(new))

Extends(old, new) == Len(new) >= Len(old) /\ SubSeq(new, 1, Len(old)) = old

\* C1: a save of a canvas on which the caller made more pushes than pops
\* (the stream holds more q, the implicit one set aside, than Q) logs exactly
\* one warning and still produces the output: the serialized stream, the
\* resources and the document save.
C1_ImbalanceWarnsOnce ==
    [][(last'.op = "save" /\ CountOp(cs, "q") - 1 > CountOp(cs, "Q"))
        => /\ warnings' = warnings + 1
           /\ page'.Contents = Unparse(cs')
           /\ DOMAIN page'.Resources.Font = {FONT_NAME}
           /\ output' = Append(output, page')]_vars

\* C2: leaving an enter_context scope, by the end of the body or by an error,
\* appends exactly one Q, and a scope whose body was balanced leaves the depth
\* counter at its value from before the scope was entered.
C2_ScopeExitAlwaysPops ==
    [][last'.op = "exit_context"
        => /\ cs' = Append(cs, Op("Q"))
           /\ (stack_depth = scopes[Len(scopes)] + 1
                 => stack_depth' = scopes[Len(scopes)])]_vars

\* C3: a draw_image that fails with the unsupported-mode error leaves the
\* stream, the pending-image list and the depth counter as before the call.
C3_FailedDrawImageChangesNothing ==
    [][(last'.op = "draw_image" /\ ~last'.ok)
        => /\ cs' = cs
           /\ images' = images
           /\ stack_depth' = stack_depth]_vars

C5_DepthIsPushesMinusPops ==
    stack_depth = CountOp(cs, "q") - CountOp(cs, "Q")

C5_Witness ==
    /\ last.op = "pop"
    /\ CountOp(cs, "q") = 3
    /\ CountOp(cs, "Q") = 2
    /\ stack_depth = 1

\* prefixes of the operator sequence never hold more Q than q
NoUnderflow(ops) ==
    \A n \in 1..Len(ops) :
        Cardinality({k \in 1..n : ops[k] = "Q"}) <= Cardinality({k \in 1..n : ops[k] = "q"})

\* C6: when every call of the caller was balanced (no failed draw_image, no
\* scope left by an error, every pop matching an open push and no push left
\* open), the stream serialized by the save that finalizes the page starts
\* with q, ends with Q, holds as many q as Q, and no prefix of it holds more Q
\* than q.
C6_BalancedPageIsBracketed ==
    (last.op = "save" /\ Len(output) = 1 /\ caller.balanced /\ caller.open = 0)
        => LET ops == Operators(page.Contents)
           IN /\ ops[1] = "q"
              /\ ops[Len(ops)] = "Q"
              /\ Cardinality({k \in 1..Len(ops) : ops[k] = "q"})
                   = Cardinality({k \in 1..Len(ops) : ops[k] = "Q"})
              /\ NoUnderflow(ops)

C6_Witness ==
    /\ last.op = "save" /\ Len(output) = 1 /\ caller.balanced /\ caller.open = 0
    /\ \E k \in 1..Len(page.Contents) : Operators(page.Contents)[k] = "Do"
    /\ \E k \in 1..Len(page.Contents) : Operators(page.Contents)[k] = "ET"
    /\ Len(page.Contents) > 8

\* C7: a successful draw_image(image, x, y, width, height) appends exactly
\* q, cm [width 0 0 height x y], Do name, Q, appends exactly one Loaded Image,
\* of that name, and leaves the depth counter unchanged.
C7_DrawImageAppendsBalancedSequence ==
    [][(last'.op = "draw_image" /\ last'.ok)
        => LET x == last'.args[1]
               y == last'.args[2]
               width == last'.args[3]
               height == last'.args[4]
               li == images'[Len(images')]
           IN /\ Len(images') = Len(images) + 1
              /\ Extends(images, images')
              /\ cs' = cs \o <<Op("q"),
                               Inst("cm", "", <<width, 0, 0, height, x, y>>, <<>>),
                               Inst("Do", li.name, <<>>, <<>>),
                               Op("Q")>>
              /\ li.name # ""
              /\ stack_depth' = stack_depth]_vars

C7_Witness == last.op = "draw_image" /\ last.ok /\ Len(images) = 2

BytesToUnits(b) == [k \in 1..(Len(b) \div 2) |-> b[2 * k - 1] * 256 + b[2 * k]]

RECURSIVE UnitsToCodePoints(_)
UnitsToCodePoints(u) ==
    IF Len(u) = 0
    THEN <<>>
    ELSE IF Len(u) >= 2 /\ u[1] \in 55296..56319 /\ u[2] \in 56320..57343
         THEN <<65536 + (u[1] - 55296) * 1024 + (u[2] - 56320)>>
              \o UnitsToCodePoints(SubSeq(u, 3, Len(u)))
         ELSE <<u[1]>> \o UnitsToCodePoints(SubSeq(u, 2, Len(u)))

ShowsText(i, t) ==
    /\ i.op = "TJ"
    /\ i.name = ""
    /\ Len(i.nums) = 0
    /\ Len(i.bytes) % 2 = 0
    /\ \A k \in 1..Len(i.bytes) : i.bytes[k] \in 0..255
    /\ UnitsToCodePoints(BytesToUnits(i.bytes)) = t

C10_ResourcesAfterSave ==
    last.op = "save"
        => /\ DOMAIN page.Resources.Font = {FONT_NAME}
           /\ Cardinality(DOMAIN page.Resources.XObject) = Len(images)
           /\ DOMAIN page.Resources.XObject = {images[k].name : k \in 1..Len(images)}

C10_Witness ==
    /\ last.op = "save"
    /\ Len(images) = 2
    /\ Cardinality(DOMAIN page.Resources.XObject) = 2

\* C11: every pending Loaded Image has mode 1, L or RGB: a draw_image that
\* succeeds stores the source's mode, a palette source as RGB, and a
\* draw_image fails (recording nothing) exactly for the other modes.
C11_PendingImageModes ==
    /\ \A k \in 1..Len(images) : images[k].image.mode \in {"1", "L", "RGB"}
    /\ last.op = "draw_image"
         => /\ last.ok <=> last.name \in {"1", "L", "RGB", "P"}
            /\ last.ok => images[Len(images)].image.mode
                            = (IF last.name = "P" THEN "RGB" ELSE last.name)

C11_Witness ==
    /\ last.op = "draw_image" /\ last.ok /\ last.name = "P"
    /\ images[Len(images)].image.mode = "RGB"
    /\ Len(images) = 2

\* C12: the image object emitted at save for a pending Loaded Image carries
\* the image's width and height, DeviceGray for modes 1 and L and DeviceRGB
\* otherwise, and 1 bit per component for mode 1 and 8 otherwise.
C12_ImageObjectsMatchImages ==
    last.op = "save"
        => \A k \in 1..Len(images) :
              LET img == images[k].image
                  obj == page.Resources.XObject[images[k].name]
              IN /\ obj.Width = img.width
                 /\ obj.Height = img.height
                 /\ obj.ColorSpace = (IF img.mode = "1" \/ img.mode = "L"
                                      THEN "/DeviceGray" ELSE "/DeviceRGB")
                 /\ obj.BitsPerComponent = (IF img.mode = "1" THEN 1 ELSE 8)

C12_Witness ==
    /\ last.op = "save"
    /\ Len(images) = 2
    /\ images[1].image.mode = "1"
    /\ images[2].image.mode = "RGB"
    /\ page.Resources.XObject[images[1].name].BitsPerComponent = 1
    /\ page.Resources.XObject[images[2].name].ColorSpace = "/DeviceRGB"

\* C13: the glyphless font registrar is invoked at most once for the
\* canvas's document, whatever the calls made on it, more than one save
\* included: the document holds at most one glyphless font object graph.
C13_FontRegisteredAtMostOnce == Len(pdf.fonts) <= 1

\* C14: once save has run, no later call on the canvas changes the
\* instruction stream, and the stream is not serialized again.
C14_StreamFrozenAfterSave ==
    [][Len(output) >= 1
        => /\ cs' = cs
           /\ page'.Contents = page.Contents
           /\ output' = output]_vars

\* C15: the output target is written only by save, as its last step: what is
\* written is the page with the implicit pop made, the stream serialized, the
\* media box set and the font and every pending image in the resource
\* dictionary; no other call (construction, drawing, text, a failed
\* draw_image) writes to the output target.
C15_SaveIsTheOnlyCommit ==
    [][output' # output
        => /\ last'.op = "save"
           /\ output' = Append(output, page')
           /\ cs' = Append(cs, Op("Q"))
           /\ page'.Contents = Unparse(cs')
           /\ page'.MediaBox = <<0, 0, page_size[1], page_size[2]>>
           /\ DOMAIN page'.Resources.Font = {FONT_NAME}
           /\ DOMAIN page'.Resources.XObject
                = {images[k].name : k \in 1..Len(images)}]_vars

C15_Witness ==
    /\ last.op = "save"
    /\ Len(output) = 1
    /\ output[1] = page
    /\ Len(images) = 1
    /\ CountOp(cs, "cm") = 2

\* the number of instructions a method appends
Growth(op) ==
    CASE op = "cs.line" -> 2
      [] op = "line" -> 3
      [] op = "rect" -> 2
      [] OTHER -> 1

RECURSIVE TextDelimited(_, _, _)
TextDelimited(s, inText, marked) ==
    IF s = <<>>
    THEN ~inText /\ marked = 0
    ELSE LET op == Head(s).op
         IN CASE op = "BT" -> ~inText /\ TextDelimited(Tail(s), TRUE, marked)
              [] op = "ET" -> inText /\ marked = 0 /\ TextDelimited(Tail(s), FALSE, 0)
              [] op = "BMC" -> TextDelimited(Tail(s), inText, marked + 1)
              [] op = "EMC" -> marked > 0 /\ TextDelimited(Tail(s), inText, marked - 1)
              [] OTHER -> TextDelimited(Tail(s), inText, marked)

\* C17: a Text Run's buffer starts with its only BT and holds no ET; each
\* draw_text(run) appends the run's buffered instructions, in order, and then
\* exactly one ET; so the page stream always has as many ET as BT, its text
\* objects do not nest, and every BMC in a text object is closed by an EMC
\* before the ET.
C17_TextObjectsDelimited ==
    [][/\ last'.op = "draw_text" => cs' = (cs \o text.cs) \o <<Op("ET")>>
       /\ text'.cs # <<>>
            => /\ text'.cs[1] = Op("BT")
               /\ CountOp(text'.cs, "BT") = 1
               /\ CountOp(text'.cs, "ET") = 0
       /\ CountOp(cs', "BT") = CountOp(cs', "ET")
       /\ TextDelimited(cs', FALSE, 0)]_vars

C17_Witness ==
    /\ last.op = "draw_text"
    /\ text.direction = "RTL"
    /\ CountOp(cs, "BMC") = 1
    /\ CountOp(cs, "EMC") = 1
    /\ cs[Len(cs)] = Op("ET")

\* C18: get_start_of_line is the (x, y) given at construction, after
\* set_text_transform it is the (e, f) of that transform, and set_font,
\* set_render_mode, set_horiz_scale, move_cursor and show leave it unchanged.
C18_AnchorFollowsTransformOnly ==
    [][/\ last'.op = "text"
            => TextGetStartOfLine(text') = <<last'.args[1], last'.args[2]>>
       /\ last'.op = "set_text_transform"
            => TextGetStartOfLine(text') = <<last'.args[5], last'.args[6]>>
       /\ last'.op \in {"set_font", "set_render_mode", "set_horiz_scale",
                        "move_cursor", "show"}
            => TextGetStartOfLine(text') = TextGetStartOfLine(text)]_vars

C18_Witness ==
    /\ last.op = "move_cursor"
    /\ TextGetStartOfLine(text) = <<30, 40>>
    /\ CountOp(text.cs, "Tm") = 1

\* C19: every Do in the page stream names a pending image (also after a
\* failed draw_image), every Tf in it selects the canvas's font name whatever
\* font the caller named, and after save every name a Do or Tf of the stream
\* uses is a key of the page's resource dictionary.
C19_NoDanglingResourceNames ==
    /\ \A k \in 1..Len(cs) :
          /\ cs[k].op = "Do" => \E j \in 1..Len(images) : images[j].name = cs[k].name
          /\ cs[k].op = "Tf" => cs[k].name = FONT_NAME
    /\ last.op = "save"
         => \A k \in 1..Len(cs) :
               /\ cs[k].op = "Do" => cs[k].name \in DOMAIN page.Resources.XObject
               /\ cs[k].op = "Tf" => cs[k].name \in DOMAIN page.Resources.Font

C19_Witness ==
    /\ last.op = "save"
    /\ CountOp(cs, "Tf") = 1
    /\ CountOp(cs, "Do") = 1
    /\ CountOp(cs, "cm") = 2

====
